---- MODULE Spec2Model ----
(***************************************************************************)
(* HONE + damped Kuramoto ensemble (src/HONE+Kuramoto_ensemble_cpu.py).    *)
(*                                                                         *)
(* One realization (HONE_worker_with_damped_kuramoto) and the ensemble     *)
(* orchestrator (HONE_kuramoto_ensemble) that runs one realization per     *)
(* seed on a thread pool.                                                  *)
(*                                                                         *)
(* Arithmetic.  The program computes in float64.  The model computes the   *)
(* same expressions on integers, for dim = 1 and for inputs on this grid:  *)
(*     positions            multiples of 1/4   (np.random.rand: [0,1))     *)
(*     velocities           multiples of 1/2                               *)
(*     dt                   multiples of 1/2                               *)
(*     tol, total_movement  multiples of 1/4                               *)
(*     gamma                integers                                       *)
(*     phases               multiples of pi/2  (uniform: [0, 2 pi))        *)
(*     phase_velocities     multiples of pi                                *)
(*     intrinsic_frequencies, K   multiples of 2 pi                        *)
(*     gamma_theta          multiples of 2                                 *)
(* With these units every assignment of the loop body is the source's      *)
(* expression verbatim on the integer numerators, e.g.                     *)
(*   v' = v + F*dt - gamma*v  with v = W/2, dt = d/2 is W' = W + F*d -     *)
(*   gamma*W, and p' = p + v'*dt with p = P/4 is P' = P + W'*d.            *)
(* In dim = 1 the unit vector delta/distance is the sign of delta, and on  *)
(* the 1/4 grid "distance > 1e-6" is "distance is not 0".                  *)
(***************************************************************************)
EXTENDS Integers, Sequences, FiniteSets, TLC

VARIABLES call, main, task, w, rng

vars == <<call, main, task, w, rng>>

\* ------------------------------------------------------------------ bounds

\* largest step budget (iterations) a call is made with
MaxIter == 2
\* largest ensemble_size a call is made with; the pool of ThreadPoolExecutor()
\* has min(32, cpu_count + 4) >= 5 threads, so every task below runs at once
MaxEnsemble == 2
\* largest seed of a direct call of the worker
MaxSeed == 2

\* ----------------------------------------------------------------- helpers

Abs(x) == IF x < 0 THEN -x ELSE x

Sign(x) == IF x > 0 THEN 1 ELSE IF x < 0 THEN -1 ELSE 0

RECURSIVE SumOver(_, _)
\* np.sum of f over the index set S
SumOver(S, f) ==
    IF S = {} THEN 0
    ELSE LET x == CHOOSE y \in S : TRUE
         IN  f[x] + SumOver(S \ {x}, f)

Last(s) == s[Len(s)]

\* None, where a tuple or a list is expected
None == <<>>

\* sin at a multiple x of pi/2
Sin(x) ==
    LET r == x % 4
    IN  IF r = 1 THEN 1 ELSE IF r = 3 THEN -1 ELSE 0

\* --------------------------------------------------- the global generator
\* np.random is one process-wide generator.  Its state is fixed by the last
\* seed given to np.random.seed and the number of variates drawn since.

\* the generator as the import of numpy leaves it (seeded from the OS)
EntropySeed == -1

\* the k-th variate of the stream of seed s, as a number in 0..12
Variate(s, k) == ((s + 1) * (k + 6) * (k + s + 5) + 2 * k) % 13

\* np.random.seed(seed)
Seeded(seed) == [seed |-> seed, pos |-> 0]

\* the next n variates of generator state g
Draws(g, n) == [i \in 1..n |-> Variate(g.seed, g.pos + i - 1)]

\* the generator after n variates were drawn
Advance(g, n) == [g EXCEPT !.pos = @ + n]

\* np.random.rand(num_nodes, 1): positions in [0, 1) on the 1/4 grid
Rand(g, n) == [i \in 1..n |-> Draws(g, n)[i] % 4]

\* np.random.uniform(0, 2 pi, num_nodes): phases on the pi/2 grid
Uniform(g, n) == [i \in 1..n |-> Draws(g, n)[i] % 4]

\* np.random.normal(0, 1, num_nodes): frequencies on the 2 pi grid
Normal(g, n) == [i \in 1..n |-> (Draws(g, n)[i] % 3) - 1]

\* ------------------------------------------------------------ the dynamics

num_nodes(adj_matrix) == Len(adj_matrix)

\* mask = distances > 1e-6 for node i
Mask(positions, i) ==
    {j \in 1..Len(positions) : Abs(positions[j] - positions[i]) > 0}

\* distances[~mask] = max(1e-6, np.min(distances[mask])): np.min of an empty
\* selection raises ValueError; the value written is never read again
MinRaises(positions, i) == Mask(positions, i) = {}

\* whether calculate_forces(positions) raises instead of returning
calculate_forces_raises(positions) ==
    \E i \in 1..Len(positions) : MinRaises(positions, i)

\* forces[i] = sum over mask of adj_matrix[i, j] * delta[j] / distances[j]
ForceOn(adj_matrix, positions, i) ==
    LET mask == Mask(positions, i)
    IN  SumOver(mask,
            [j \in mask |-> adj_matrix[i][j] * Sign(positions[j] - positions[i])])

calculate_forces(adj_matrix, positions) ==
    [i \in 1..Len(positions) |-> ForceOn(adj_matrix, positions, i)]

\* an energy is grid/32 + floor * 0.5e-12: the second part counts the pairs
\* whose distance max(.., 1e-6) took the floor
Energy(grid, floor) == [grid |-> grid, floor |-> floor]

EnergySum(a, b) == Energy(a.grid + b.grid, a.floor + b.floor)

Pairs(n) == {p \in (1..n) \X (1..n) : p[2] < p[1]}

compute_potential_energy(adj_matrix, positions) ==
    LET ps == Pairs(Len(positions))
        d(p) == Abs(positions[p[1]] - positions[p[2]])
        far == {p \in ps : d(p) > 0}
        near == ps \ far
    IN  Energy(SumOver(far, [p \in far |-> adj_matrix[p[1]][p[2]] * d(p) * d(p)]),
               SumOver(near, [p \in near |-> adj_matrix[p[1]][p[2]]]))

\* 0.5 * sum of |v|^2, v = W/2
KineticEnergy(velocities) ==
    LET I == 1..Len(velocities)
    IN  Energy(4 * SumOver(I, [i \in I |-> velocities[i] * velocities[i]]), 0)

\* the damping applied to the velocity the force has already updated
MutNewVelocitiesDampAfter(velocities, forces, dt, gamma) ==
    [i \in 1..Len(velocities) |->
        (velocities[i] + forces[i] * dt) - gamma * (velocities[i] + forces[i] * dt)]

\* velocities += accelerations * dt - gamma * velocities
NewVelocities(velocities, forces, dt, gamma) ==
    [i \in 1..Len(velocities) |-> velocities[i] + (forces[i] * dt - gamma * velocities[i])]

\* new_positions = positions + velocities * dt
NewPositions(positions, velocities, dt) ==
    [i \in 1..Len(positions) |-> positions[i] + velocities[i] * dt]

\* phase_diffs[i] = sum(adj_matrix[i] * sin(phases - phases[i]))
PhaseDiffs(adj_matrix, phases) ==
    LET I == 1..Len(phases)
    IN  [i \in I |-> SumOver(I, [j \in I |-> adj_matrix[i][j] * Sin(phases[j] - phases[i])])]

PhaseAccelerations(intrinsic_frequencies, phase_diffs, phase_velocities, K, gamma_theta) ==
    [i \in 1..Len(phase_diffs) |->
        intrinsic_frequencies[i] + K * phase_diffs[i] - gamma_theta * phase_velocities[i]]

\* phase_velocities += phase_accelerations * dt
NewPhaseVelocities(phase_velocities, phase_accelerations, dt) ==
    [i \in 1..Len(phase_velocities) |-> phase_velocities[i] + phase_accelerations[i] * dt]

\* new_phases = phases + phase_velocities * dt
NewPhases(phases, phase_velocities, dt) ==
    [i \in 1..Len(phases) |-> phases[i] + phase_velocities[i] * dt]

\* total_movement = sum of |new_positions - positions|
TotalMovement(new_positions, positions) ==
    LET I == 1..Len(positions)
    IN  SumOver(I, [i \in I |-> Abs(new_positions[i] - positions[i])])

\* the for statement: the body runs while step < iterations
LoopHead(step, iterations) == IF step < iterations THEN "loop" ELSE "exhausted"

\* the convergence test with <= in place of <
MutAfterBodyInclusive(total_movement, tol, step, iterations) ==
    IF total_movement <= tol THEN "converged" ELSE LoopHead(step + 1, iterations)

\* where control goes after the body of iteration `step`
AfterBody(total_movement, tol, step, iterations) ==
    IF total_movement < tol THEN "converged" ELSE LoopHead(step + 1, iterations)

\* the spatial damping taken from gamma_theta
MutVelocitiesPhaseDamping(wk, a) ==
    NewVelocities(wk.velocities, calculate_forces(a.adj_matrix, wk.positions),
                  a.dt, a.gamma_theta)

\* velocities after line 85 of a pass that starts in state wk
Velocities(wk, a) ==
    NewVelocities(wk.velocities, calculate_forces(a.adj_matrix, wk.positions),
                  a.dt, a.gamma)

\* phase_velocities after line 95 of a pass that starts in state wk
PhaseVelocities(wk, a) ==
    NewPhaseVelocities(wk.phase_velocities,
        PhaseAccelerations(wk.intrinsic_frequencies, PhaseDiffs(a.adj_matrix, wk.phases),
                           wk.phase_velocities, a.K, a.gamma_theta),
        a.dt)

\* the append to total_energy_history left out
MutRecordNoTotal(wk, new_positions, new_phases, kinetic_energy, potential_energy, total_energy) ==
    [wk EXCEPT !.positions_history = Append(@, new_positions),
               !.phase_history = Append(@, new_phases),
               !.kinetic_energy_history = Append(@, kinetic_energy),
               !.potential_energy_history = Append(@, potential_energy)]

\* the five appends of a pass
Record(wk, new_positions, new_phases, kinetic_energy, potential_energy, total_energy) ==
    [wk EXCEPT !.positions_history = Append(@, new_positions),
               !.phase_history = Append(@, new_phases),
               !.kinetic_energy_history = Append(@, kinetic_energy),
               !.potential_energy_history = Append(@, potential_energy),
               !.total_energy_history = Append(@, total_energy)]

\* one pass through the body of the simulation loop; wk.step is the loop index.
\* calculate_forces raises before anything of the pass is assigned.
LoopBody(wk, a) ==
    IF calculate_forces_raises(wk.positions) THEN [wk EXCEPT !.pc = "raised"]
    ELSE
        LET velocities == Velocities(wk, a)
            new_positions == NewPositions(wk.positions, velocities, a.dt)
            phase_velocities == PhaseVelocities(wk, a)
            new_phases == NewPhases(wk.phases, phase_velocities, a.dt)
            kinetic_energy == KineticEnergy(velocities)
            potential_energy == compute_potential_energy(a.adj_matrix, new_positions)
            total_energy == EnergySum(kinetic_energy, potential_energy)
            total_movement == TotalMovement(new_positions, wk.positions)
            pc == AfterBody(total_movement, a.tol, wk.step, a.iterations)
            brk == pc = "converged"
        IN  [Record(wk, new_positions, new_phases,
                    kinetic_energy, potential_energy, total_energy) EXCEPT
                !.pc = pc,
                !.step = IF brk THEN @ ELSE @ + 1,
                !.velocities = velocities,
                !.phase_velocities = phase_velocities,
                !.positions = IF brk THEN @ ELSE new_positions,
                !.phases = IF brk THEN @ ELSE new_phases]

\* a task as submitted: nothing of the function body has run
Queued ==
    [pc |-> "queued", step |-> 0,
     positions |-> <<>>, velocities |-> <<>>,
     phases |-> <<>>, phase_velocities |-> <<>>, intrinsic_frequencies |-> <<>>,
     positions_history |-> <<>>, phase_history |-> <<>>,
     potential_energy_history |-> <<>>, kinetic_energy_history |-> <<>>,
     total_energy_history |-> <<>>]

\* positions = np.random.rand(..); velocities = np.zeros_like(positions)
WithPositions(wk, g, n) ==
    [wk EXCEPT !.pc = "positions_drawn",
               !.positions = Rand(g, n),
               !.velocities = [i \in 1..n |-> 0]]

\* phases = np.random.uniform(..); phase_velocities = np.zeros(num_nodes)
WithPhases(wk, g, n) ==
    [wk EXCEPT !.pc = "phases_drawn",
               !.phases = Uniform(g, n),
               !.phase_velocities = [i \in 1..n |-> 0]]

\* intrinsic_frequencies = np.random.normal(..), the history lists, loop entry
WithFrequencies(wk, g, n, iterations) ==
    [wk EXCEPT !.pc = LoopHead(0, iterations),
               !.intrinsic_frequencies = Normal(g, n),
               !.positions_history = <<wk.positions>>,
               !.phase_history = <<wk.phases>>]

\* the tuple of the return statement
Returned(wk) ==
    <<wk.positions_history, wk.phase_history, wk.potential_energy_history,
      wk.kinetic_energy_history, wk.total_energy_history>>

Terminal(wk) == wk.pc \in {"converged", "exhausted", "raised"}

\* lines 33-52 run with no other thread touching the generator
InitialState(a) ==
    LET n == num_nodes(a.adj_matrix)
        g == Seeded(a.seed)
    IN  WithFrequencies(
            WithPhases(WithPositions(Queued, g, n), Advance(g, n), n),
            Advance(g, n + n), n, a.iterations)

RECURSIVE RunToEnd(_, _)
\* the simulation loop run to its end
RunToEnd(wk, a) == IF wk.pc = "loop" THEN RunToEnd(LoopBody(wk, a), a) ELSE wk

\* HONE_worker_with_damped_kuramoto(a) run alone
RunAlone(a) == RunToEnd(InitialState(a), a)

\* ------------------------------------------------------------- the inputs

\* a networkx graph: the weight attribute of every pair of nodes (0: no edge)
\* and whether nx.is_weighted(G) holds
Graph(weighted, weight) == [weighted |-> weighted, weight |-> weight]

OneNode == Graph(FALSE, << <<0>> >>)

TwoNodes == Graph(FALSE, << <<0, 1>>, <<1, 0>> >>)

TwoNodesNoEdge == Graph(FALSE, << <<0, 0>>, <<0, 0>> >>)

TwoNodesWeighted == Graph(TRUE, << <<0, 2>>, <<2, 0>> >>)

\* one edge carries weight 3, the other no weight attribute: not weighted
PathMixed == Graph(FALSE, << <<0, 3, 0>>, <<3, 0, 1>>, <<0, 1, 0>> >>)

PathWeighted == Graph(TRUE, << <<0, 1, 0>>, <<1, 0, 2>>, <<0, 2, 0>> >>)

Graphs == {OneNode, TwoNodes, TwoNodesNoEdge, TwoNodesWeighted, PathMixed, PathWeighted}

\* nx.to_numpy_array, and for a graph that is not weighted adj_matrix[adj_matrix > 0] = 1
AdjMatrix(G) ==
    IF G.weighted THEN G.weight
    ELSE [i \in 1..Len(G.weight) |->
            [j \in 1..Len(G.weight) |-> IF G.weight[i][j] > 0 THEN 1 ELSE 0]]

\* the arguments of one call of HONE_worker_with_damped_kuramoto (dim = 1)
WorkerArgs(adj_matrix, iterations, tol, seed, dt, gamma, gamma_theta, K) ==
    [adj_matrix |-> adj_matrix, iterations |-> iterations, tol |-> tol, seed |-> seed,
     dt |-> dt, gamma |-> gamma, gamma_theta |-> gamma_theta, K |-> K]

\* the calls of HONE_kuramoto_ensemble the model makes, on the two-node graph
\* and the one-node graph: every ensemble size, with a step budget of 0 or 1,
\* a tolerance of -1/4 or 3/4 and a time step of 0 or 1/2, at most one of the
\* three being invalid (an invalid tolerance or time step with at most two seeds)
Calls ==
    {c \in [G : {TwoNodes, OneNode}, iterations : {0, 1},
            ensemble_size : 0..MaxEnsemble, tol : {-1, 3}, dt : {0, 1},
            gamma : {1}, gamma_theta : {1}, K : {1}] :
        /\ Cardinality({f \in {"iterations", "tol", "dt"} : c[f] <= 0}) <= 1
        /\ c.G = OneNode => c.iterations = 1 /\ c.tol = 3 /\ c.dt = 1
        /\ c.tol < 0 \/ c.dt <= 0 => c.ensemble_size <= 2}

\* the adjacency matrices a direct caller of the worker passes
AdjMatrices == {AdjMatrix(G) : G \in Graphs}

\* two successive direct calls of the worker that differ in K and gamma_theta
RunPairs ==
    {<<a, b>> \in
        [adj_matrix : AdjMatrices, iterations : 0..MaxIter, tol : {0, 3, 9},
         seed : 0..MaxSeed, dt : {1, 2}, gamma : {0, 1},
         gamma_theta : {0, 1}, K : {0, 1}]
        \X [K : {0, 1}, gamma_theta : {0, 1}] : TRUE}

\* ------------------------------------------------------ the worker's steps

IsTask(i) == i \in DOMAIN w

\* np.random.seed(seed)
Seed(i) ==
    /\ IsTask(i) /\ w[i].pc = "queued"
    /\ rng' = Seeded(task[i].seed)
    /\ w' = [w EXCEPT ![i].pc = "seeded"]
    /\ UNCHANGED <<call, main, task>>

DrawPositions(i) ==
    /\ IsTask(i) /\ w[i].pc = "seeded"
    /\ w' = [w EXCEPT ![i] = WithPositions(@, rng, num_nodes(task[i].adj_matrix))]
    /\ rng' = Advance(rng, num_nodes(task[i].adj_matrix))
    /\ UNCHANGED <<call, main, task>>

DrawPhases(i) ==
    /\ IsTask(i) /\ w[i].pc = "positions_drawn"
    /\ w' = [w EXCEPT ![i] = WithPhases(@, rng, num_nodes(task[i].adj_matrix))]
    /\ rng' = Advance(rng, num_nodes(task[i].adj_matrix))
    /\ UNCHANGED <<call, main, task>>

DrawFrequencies(i) ==
    /\ IsTask(i) /\ w[i].pc = "phases_drawn"
    /\ w' = [w EXCEPT ![i] = WithFrequencies(@, rng, num_nodes(task[i].adj_matrix),
                                             task[i].iterations)]
    /\ rng' = Advance(rng, num_nodes(task[i].adj_matrix))
    /\ UNCHANGED <<call, main, task>>

Step(i) ==
    /\ IsTask(i) /\ w[i].pc = "loop"
    /\ w' = [w EXCEPT ![i] = LoopBody(@, task[i])]
    /\ UNCHANGED <<call, main, task, rng>>

\* ------------------------------------------------------- the orchestrator

Seeds(ensemble_size) == 0..(ensemble_size - 1)

\* adjacency matrix, results = [None] * ensemble_size, one submit per seed
Submit ==
    /\ main.pc = "entry"
    /\ task' = [seed \in Seeds(call.ensemble_size) |->
                  WorkerArgs(AdjMatrix(call.G), call.iterations, call.tol, seed,
                             call.dt, call.gamma, call.gamma_theta, call.K)]
    /\ w' = [seed \in Seeds(call.ensemble_size) |-> Queued]
    /\ main' = [main EXCEPT !.pc = "join", !.i = 0,
                            !.results = [i \in Seeds(call.ensemble_size) |-> None]]
    /\ UNCHANGED <<call, rng>>

\* the result of future i stored from the far end of results
MutJoinMirrored ==
    /\ main.pc = "join" /\ IsTask(main.i)
    /\ Terminal(w[main.i])
    /\ main' = IF w[main.i].pc = "raised"
               THEN [main EXCEPT !.pc = "unwinding", !.error = main.i]
               ELSE [main EXCEPT !.results[call.ensemble_size - 1 - main.i] =
                                     Returned(w[main.i]),
                                 !.i = @ + 1]
    /\ UNCHANGED <<call, task, w, rng>>

\* results[i] = future.result(): waits for future i; re-raises what its task raised
Join ==
    /\ main.pc = "join" /\ IsTask(main.i)
    /\ Terminal(w[main.i])
    /\ main' = IF w[main.i].pc = "raised"
               THEN [main EXCEPT !.pc = "unwinding", !.error = main.i]
               ELSE [main EXCEPT !.results[main.i] = Returned(w[main.i]), !.i = @ + 1]
    /\ UNCHANGED <<call, task, w, rng>>

\* the five lists [result[k] for result in results]
Extract(results) ==
    [k \in 1..5 |-> [i \in DOMAIN results |-> results[i][k]]]

\* the end of the with block (every future is done) and the return statement
Return ==
    /\ main.pc = "join" /\ ~IsTask(main.i)
    /\ main' = [main EXCEPT !.pc = "returned", !.ret = Extract(main.results)]
    /\ UNCHANGED <<call, task, w, rng>>

\* the exception reaching the caller without the wait for the other tasks
MutUnwindNoWait ==
    /\ main.pc = "unwinding"
    /\ main' = [main EXCEPT !.pc = "raised"]
    /\ UNCHANGED <<call, task, w, rng>>

\* an exception leaves the with block: executor.shutdown(wait=True) waits for
\* every submitted task, then the exception reaches the caller
Unwind ==
    /\ main.pc = "unwinding"
    /\ \A i \in DOMAIN w : Terminal(w[i])
    /\ main' = [main EXCEPT !.pc = "raised"]
    /\ UNCHANGED <<call, task, w, rng>>

\* ------------------------------------------------------ the specification

Idle == [pc |-> "entry", i |-> 0, results |-> <<>>, ret |-> None, error |-> -1]

Init ==
    /\ call \in Calls
    /\ main = Idle
    /\ task = <<>>
    /\ w = <<>>
    /\ rng = Seeded(EntropySeed)

Worker(i) ==
    \/ Seed(i)
    \/ DrawPositions(i)
    \/ DrawPhases(i)
    \/ DrawFrequencies(i)
    \/ Step(i)

Next ==
    \/ Submit
    \/ Join
    \/ Return
    \/ Unwind
    \/ \E i \in Seeds(MaxEnsemble) : Worker(i)

Spec == Init /\ [][Next]_vars

\* Two direct calls of HONE_worker_with_damped_kuramoto, one after the other on
\* one thread, with the same arguments but for K and gamma_theta.
InitRuns ==
    /\ call = None
    /\ main = [Idle EXCEPT !.pc = "direct"]
    /\ \E p \in RunPairs :
          task = [i \in 0..1 |->
                    IF i = 0 THEN p[1]
                    ELSE [p[1] EXCEPT !.K = p[2].K, !.gamma_theta = p[2].gamma_theta]]
    /\ w = [i \in 0..1 |-> Queued]
    /\ rng = Seeded(EntropySeed)

NextRuns ==
    \/ Worker(0)
    \/ Terminal(w[0]) /\ Worker(1)

SpecRuns == InitRuns /\ [][NextRuns]_vars

\* ------------------------------------------------------------- the claims

\* a worker past lines 33-52: its draws are made and its history lists exist
Initialized(wk) == wk.pc \in {"loop", "converged", "exhausted", "raised"}

Ended(wk) == wk.pc \in {"converged", "exhausted"}

\* the movement of the pass with loop index t, read off the position history
Movement(wk, t) ==
    TotalMovement(wk.positions_history[t + 2], wk.positions_history[t + 1])

EnergyLengths(wk, n) ==
    /\ Len(wk.potential_energy_history) = n
    /\ Len(wk.kinetic_energy_history) = n
    /\ Len(wk.total_energy_history) = n

InvalidConfiguration(c) ==
    c.iterations <= 0 \/ c.ensemble_size <= 0 \/ c.dt <= 0 \/ c.tol < 0

\* C1: under every interleaving of the concurrent realizations, the draws of
\* the realization for seed s (initial positions, initial phases, intrinsic
\* frequencies) are those of a generator seeded with s alone, and the five
\* histories the ensemble returns for seed s are those the worker returns when
\* it runs alone with seed s.  Stated for the calls with a valid configuration
\* on the graph of two nodes and one edge.
C1_DrawsFromOwnSeed ==
    (~InvalidConfiguration(call) /\ call.G = TwoNodes) =>
    /\ \A i \in DOMAIN w :
         Initialized(w[i]) =>
            /\ w[i].positions_history[1] = InitialState(task[i]).positions
            /\ w[i].phase_history[1] = InitialState(task[i]).phases
            /\ w[i].intrinsic_frequencies = InitialState(task[i]).intrinsic_frequencies
    /\ main.pc = "returned" =>
         \A i \in DOMAIN main.results :
            main.results[i] = Returned(RunAlone(task[i]))

\* C2: when the ensemble returns, each of the five sequences has one entry per
\* seed 0..ensemble_size-1, and the entry at index i is the history the
\* realization dispatched with seed i produced, whatever the order in which
\* the realizations ended; no slot is empty.
C2_SlotIsSeed ==
    main.pc = "returned" =>
        \A k \in 1..5 :
            /\ DOMAIN main.ret[k] = 0..(call.ensemble_size - 1)
            /\ \A i \in DOMAIN main.ret[k] :
                 /\ task[i].seed = i
                 /\ Ended(w[i])
                 /\ main.ret[k][i] = Returned(w[i])[k]
                 /\ k <= 2 => main.ret[k][i] # <<>>

\* two seeds returned with different histories, seed 0 having drawn its
\* positions while the other realization was running
C2_Witness ==
    /\ main.pc = "returned"
    /\ call.ensemble_size >= 2
    /\ main.ret[1][0] # main.ret[1][1]
    /\ main.ret[1][0][1] # InitialState(task[0]).positions

C4_HistoryLengths ==
    \A i \in DOMAIN w :
        LET wk == w[i]
            passes == IF wk.pc = "converged" THEN wk.step + 1 ELSE wk.step
        IN  Initialized(wk) =>
              /\ Len(wk.positions_history) = passes + 1
              /\ Len(wk.phase_history) = passes + 1
              /\ EnergyLengths(wk, passes)
              /\ wk.positions_history[1] = InitialState(task[i]).positions
              /\ wk.phase_history[1] = InitialState(task[i]).phases

\* a realization that returned after at least two passes
C4_Witness ==
    \E i \in DOMAIN w : Ended(w[i]) /\ Len(w[i].positions_history) >= 3

\* C5: calculate_forces does not raise on any position array, a degenerate
\* one included (every other node within 1e-6 of node i): here on every
\* position array a realization reaches.
C5_ForcesNeverRaise ==
    \A i \in DOMAIN w :
        /\ w[i].pc # "raised"
        /\ Initialized(w[i]) => ~calculate_forces_raises(w[i].positions)

\* C6: a dispatched realization that has stopped is Converged or Exhausted,
\* ran at most `iterations` passes and hands back five complete histories; the
\* ensemble call returns, and only once every realization has stopped.  Stated
\* for the calls with a valid configuration.
C6_EndsConvergedOrExhausted ==
    ~InvalidConfiguration(call) =>
    /\ \A i \in DOMAIN w :
         Terminal(w[i]) =>
            /\ Ended(w[i])
            /\ Len(w[i].positions_history) <= task[i].iterations + 1
            /\ EnergyLengths(w[i], Len(w[i].positions_history) - 1)
    /\ main.pc = "returned" => \A i \in DOMAIN w : Ended(w[i])
    /\ main.pc \notin {"unwinding", "raised"}

\* C7: a call with an invalid configuration (iterations <= 0, ensemble_size
\* <= 0, dt <= 0 or tol < 0) gets no further than its entry: no realization is
\* dispatched and no result is returned.
C7_InvalidConfigurationRejected ==
    InvalidConfiguration(call) =>
        /\ main.pc \notin {"join", "returned"}
        /\ DOMAIN w = {}

\* C8: a pass computes, from the state before it, new_velocity = old_velocity
\* + force(old positions)*dt - gamma*old_velocity and records old position +
\* new_velocity*dt; new_phase_velocity = old_phase_velocity + (frequency +
\* K*coupling(old phases) - gamma_theta*old_phase_velocity)*dt and records old
\* phase + new_phase_velocity*dt; the old positions and phases are the entries
\* the pass before recorded.
C8_UpdateOrder ==
    [][\A i \in DOMAIN w :
          (w[i].pc = "loop" /\ w'[i] # w[i] /\ w'[i].pc # "raised") =>
             LET old == w[i]
                 new == w'[i]
                 a == task[i]
                 I == 1..num_nodes(a.adj_matrix)
                 p == Last(old.positions_history)
                 th == Last(old.phase_history)
                 force == calculate_forces(a.adj_matrix, p)
                 coupling ==
                    [k \in I |->
                        SumOver(I, [j \in I |-> a.adj_matrix[k][j] * Sin(th[j] - th[k])])]
             IN  /\ Len(new.positions_history) = Len(old.positions_history) + 1
                 /\ Len(new.phase_history) = Len(old.phase_history) + 1
                 /\ \A k \in I :
                      /\ new.velocities[k] =
                            old.velocities[k] + force[k] * a.dt - a.gamma * old.velocities[k]
                      /\ Last(new.positions_history)[k] = p[k] + new.velocities[k] * a.dt
                      /\ new.phase_velocities[k] =
                            old.phase_velocities[k]
                            + (old.intrinsic_frequencies[k] + a.K * coupling[k]
                               - a.gamma_theta * old.phase_velocities[k]) * a.dt
                      /\ Last(new.phase_history)[k] = th[k] + new.phase_velocities[k] * a.dt
    ]_vars

\* a second pass has run from a state whose velocities and phase velocities the
\* first pass left nonzero, with both damping coefficients nonzero
C8_Witness ==
    \E i \in DOMAIN w :
        /\ Len(w[i].positions_history) >= 3
        /\ task[i].gamma # 0 /\ task[i].gamma_theta # 0
        /\ \E k \in 1..num_nodes(task[i].adj_matrix) :
             w[i].positions_history[2][k] # w[i].positions_history[1][k]
        /\ \E k \in 1..num_nodes(task[i].adj_matrix) :
             w[i].phase_history[2][k] # w[i].phase_history[1][k]

\* C9: when a realization fails, the ensemble call returns nothing: the error
\* of the lowest failing seed reaches the caller, what the other realizations
\* returned is dropped, and every dispatched realization has run to its end by
\* then.
C9_FailurePropagates ==
    /\ (\E i \in DOMAIN w : w[i].pc = "raised") =>
          main.pc # "returned" /\ main.ret = None
    /\ main.pc = "raised" =>
          /\ main.ret = None
          /\ \A i \in DOMAIN w : Terminal(w[i])
          /\ main.error \in DOMAIN w
          /\ w[main.error].pc = "raised"
          /\ \A j \in DOMAIN w : j < main.error => w[j].pc # "raised"

\* the error of seed 1 has reached the caller after seed 0 had returned its
\* histories and they were stored
C9_Witness ==
    /\ main.pc = "raised"
    /\ main.error >= 1
    /\ main.results[0] # None

\* C10: two runs of the worker that differ only in K and gamma_theta return the
\* same position history and the same potential, kinetic and total energy
\* histories and stop at the same step, in the same way.
C10_EmbeddingIgnoresPhases ==
    (main.pc = "direct" /\ Terminal(w[0]) /\ Terminal(w[1])) =>
        /\ w[0].positions_history = w[1].positions_history
        /\ w[0].potential_energy_history = w[1].potential_energy_history
        /\ w[0].kinetic_energy_history = w[1].kinetic_energy_history
        /\ w[0].total_energy_history = w[1].total_energy_history
        /\ w[0].step = w[1].step
        /\ w[0].pc = w[1].pc

\* both runs have ended after at least two passes, with different K and
\* gamma_theta and different phase histories
C10_Witness ==
    /\ main.pc = "direct" /\ Ended(w[0]) /\ Ended(w[1])
    /\ task[0].K # task[1].K /\ task[0].gamma_theta # task[1].gamma_theta
    /\ task[0].gamma # 0
    /\ Len(w[0].positions_history) >= 3
    /\ w[0].phase_history # w[1].phase_history

====
